---- MODULE Spec2Model ----
(***************************************************************************)
(* A model of taskpaper.py: the line classifier, the tag extractor of      *)
(* TaskNode, the tree builder parse_taskpaper_from_file, and the Document  *)
(* queries filter_by_tag and __str__.                                      *)
(*                                                                         *)
(* Text is modelled as a sequence of one-character strings, so that        *)
(* strip / split / slicing are computed as Python computes them.           *)
(* A Python None is the record None; a Python string s is Some(s).         *)
(* A dict is kept as a sequence of [name, value] entries with unique       *)
(* names; the order in which items() yields them is the hash order of the  *)
(* interpreter, which the model leaves open: a rendering may list the      *)
(* entries in any order.                                                   *)
(***************************************************************************)
EXTENDS Integers, Sequences, FiniteSets, TLC

(* ------------------------------ bounds ------------------------------- *)

\* longest input (number of lines) handed to the tree builder
MaxLines == 3
\* deepest indentation (leading tabs) of an input line
MaxTabs == 2
\* longest text after the "- " prefix of a task line given to TaskNode
MaxBody == 4
\* number of tag assignments a consumer makes on a parsed task
MaxSets == 1
\* number of add_tag calls a consumer makes on a node
MaxAdds == 1

(* ------------------------- characters and text ----------------------- *)

Tab == "\t"
NL == "\n"
CR == "\r"
FF == "\f"
\* the vertical tab, "\x0b" in Python
VT == ""
\* the characters str.strip() removes: string.whitespace
Whitespace == {" ", Tab, NL, CR, FF, VT}

None == [has |-> FALSE, val |-> <<>>]
Some(s) == [has |-> TRUE, val |-> s]

RECURSIVE lstrip(_, _)
lstrip(s, chars) ==
    IF s # <<>> /\ Head(s) \in chars THEN lstrip(Tail(s), chars) ELSE s

RECURSIVE rstrip(_, _)
rstrip(s, chars) ==
    IF s # <<>> /\ s[Len(s)] \in chars
    THEN rstrip(SubSeq(s, 1, Len(s) - 1), chars) ELSE s

strip(s) == lstrip(rstrip(s, Whitespace), Whitespace)

startswith(s, p) == Len(s) >= Len(p) /\ SubSeq(s, 1, Len(p)) = p

endswith(s, p) ==
    Len(s) >= Len(p) /\ SubSeq(s, Len(s) - Len(p) + 1, Len(s)) = p

\* position of the first c in s, 0 when s has none
find(s, c) ==
    IF \E k \in 1..Len(s) : s[k] = c
    THEN CHOOSE k \in 1..Len(s) : s[k] = c /\ \A j \in 1..(k - 1) : s[j] # c
    ELSE 0

\* s.split(c): always at least one piece
RECURSIVE split(_, _)
split(s, c) ==
    IF find(s, c) = 0 THEN <<s>>
    ELSE <<SubSeq(s, 1, find(s, c) - 1)>>
             \o split(SubSeq(s, find(s, c) + 1, Len(s)), c)

\* n * '\t'
RECURSIVE tabs_str(_)
tabs_str(n) == IF n <= 0 THEN <<>> ELSE <<Tab>> \o tabs_str(n - 1)

\* sep.join(items)
RECURSIVE join(_, _)
join(items, sep) ==
    IF items = <<>> THEN <<>>
    ELSE IF Len(items) = 1 THEN items[1]
    ELSE items[1] \o sep \o join(Tail(items), sep)

(* ------------------------------ the dict ----------------------------- *)

dict_keys(d) == {d[k].name : k \in 1..Len(d)}

dict_get(d, name) == (CHOOSE k \in 1..Len(d) : d[k].name = name)

\* d[name] = value
dict_set(d, name, value) ==
    IF name \in dict_keys(d)
    THEN [k \in 1..Len(d) |->
             IF d[k].name = name THEN [name |-> name, value |-> value] ELSE d[k]]
    ELSE Append(d, [name |-> name, value |-> value])

(* ------------------------------- nodes ------------------------------- *)

\* the TaskPaper object as a parent reference, and the None reference
Doc == 0
NoneRef == 0 - 1

\* s[:-1] of the text after the single "(" of a tag
parse_tag_value(s) ==
    IF Len(s) = 2 THEN Some(SubSeq(s[2], 1, Len(s[2]) - 1)) ELSE None

\* TaskNode._parse_tag
parse_tag(tag) ==
    LET s == split(strip(tag), "(")
    IN  [name |-> s[1], value |-> parse_tag_value(s)]

\* TaskNode._parse_tags
RECURSIVE parse_tags_into(_, _)
parse_tags_into(tag_dict, tags) ==
    IF tags = <<>> THEN tag_dict
    ELSE parse_tags_into(
             dict_set(tag_dict, parse_tag(Head(tags)).name,
                      parse_tag(Head(tags)).value),
             Tail(tags))

parse_tags(tags) == parse_tags_into(<<>>, tags)

\* Node.__init__ without the variant's _parse
BaseNode(cls, line) ==
    [cls |-> cls,
     tabs |-> Len(line) - Len(lstrip(line, {Tab})),
     line |-> strip(line),
     name |-> <<>>,
     tags |-> <<>>,
     parent |-> NoneRef,
     children |-> <<>>]

TaskNode(line) ==
    LET n == BaseNode("Task", line)
        tokens == split(strip(n.line), "@")
    IN  [n EXCEPT !.name = strip(SubSeq(tokens[1], 3, Len(tokens[1]))),
                  !.tags = parse_tags(Tail(tokens))]

ProjectNode(line) ==
    LET n == BaseNode("Project", line)
        tokens == split(strip(n.line), "@")
    IN  [n EXCEPT !.name = strip(SubSeq(tokens[1], 1, Len(tokens[1]) - 1)),
                  !.tags = Tail(tokens)]

NoteNode(line) ==
    LET n == BaseNode("Note", line)
        tokens == split(strip(n.line), "@")
    IN  [n EXCEPT !.name = strip(tokens[1]),
                  !.tags = Tail(tokens)]

\* the kind of node on a line
Classify(line) ==
    IF startswith(strip(line), <<"-", " ">>) THEN "Task"
    ELSE IF endswith(strip(line), <<":">>) THEN "Project"
    ELSE IF strip(line) # <<>> THEN "Note"
    ELSE "Blank"

MakeNode(line) ==
    IF Classify(line) = "Task" THEN TaskNode(line)
    ELSE IF Classify(line) = "Project" THEN ProjectNode(line)
    ELSE NoteNode(line)

(* ----------------------------- rendering ----------------------------- *)

\* Node.__str__
NodeStr(n) == tabs_str(n.tabs) \o n.line

\* the truth value of a tag's value in "if t[1]"
tag_has_value(value) == value.has /\ value.val # <<>>

\* one item of the list built in TaskNode.__str__
tag_item(t) ==
    IF tag_has_value(t.value)
    THEN <<"@">> \o t.name \o <<"(">> \o t.value.val \o <<")">>
    ELSE <<"@">> \o t.name

\* the orders in which items() may yield the n entries of a dict
ItemOrders(n) ==
    {p \in [1..n -> 1..n] : \A a, b \in 1..n : a # b => p[a] # p[b]}

\* TaskNode.__str__ when items() yields the entries in the given order
TaskStr(n, order) ==
    tabs_str(n.tabs) \o <<"-", " ">> \o n.name \o <<" ">>
        \o join([k \in 1..Len(n.tags) |-> tag_item(n.tags[order[k]])],
                <<" ">>)

\* the texts str(node) may give
Str(n) ==
    IF n.cls = "Task"
    THEN {TaskStr(n, order) : order \in ItemOrders(Len(n.tags))}
    ELSE {NodeStr(n)}

(* ------------------------------ inputs ------------------------------- *)

\* line texts: a project, a task tagged "a", a task tagged "b" with a
\* value, a note with a raw "@b"
Bodies ==
    { <<"P", ":">>,
      <<"-", " ", "t", "@", "a">>,
      <<"-", " ", "u", "@", "b", "(", "1", ")">>,
      <<"n", "@", "b">> }

\* what handle.readlines() can yield: each line keeps its newline
InputLines ==
    {tabs_str(d) \o b \o <<NL>> : d \in 0..MaxTabs, b \in Bodies} \cup {<<NL>>}

Inputs == UNION {[1..n -> InputLines] : n \in 0..MaxLines}

\* tag names a caller filters by
TagNames == {<<"a">>, <<"b">>}

\* characters of the text after "- " on a task line
TagChars == {"T", "@", "(", ")", " "}

TaskTabs == {0, 1}

TaskLines ==
    {l \in {tabs_str(d) \o <<"-", " ">> \o b :
                d \in TaskTabs,
                b \in UNION {[1..n -> TagChars] : n \in 0..MaxBody}} :
        Classify(l) = "Task"}

\* a project line and a note line with a raw tag, bare and as read from a
\* file with CR LF line ends
OtherLines ==
    {tabs_str(d) \o b \o e :
        d \in TaskTabs,
        b \in {<<"P", ":">>, <<"n", "@", "b">>},
        e \in {<<>>, <<CR, NL>>}}

\* a task line as read from a file with CR LF line ends
CrLfTaskLines ==
    {tabs_str(d) \o <<"-", " ", "t", " ", "@", "a", CR, NL>> : d \in TaskTabs}

NodeLines == TaskLines \cup CrLfTaskLines \cup OtherLines

\* values a consumer assigns to a tag
SetValues == {None, Some(<<>>), Some(<<"v">>)}

(* ------------------------------- state ------------------------------- *)

VARIABLES
    handle,     \* the lines of the input, as readlines() returns them
    i,          \* position of the for loop in handle
    nodes,      \* every node attached so far, in creation order
    taskpaper,  \* the TaskPaper object: its children
    last,       \* the cursor of the tree builder
    pc,         \* "loop", "done", "AttributeError"; "off" outside a parse
    query,      \* the tag_name of the latest filter_by_tag call
    tasks,      \* the list that call returned
    tp_string,  \* the text returned by the latest TaskPaper.__str__
    tline,      \* a line given to a node constructor on its own
    tnode,      \* the node built from tline
    sets,       \* number of tag assignments made on tnode
    addlog,     \* the outcome of each add_tag call made on tnode
    tout,       \* str(tnode)
    tnode2,     \* the node built from str(tnode)
    tpc         \* "new", "parsed", "rendered", "reparsed"; "off" otherwise

treevars == <<handle, i, nodes, taskpaper, last, pc, query, tasks, tp_string>>
tagvars == <<tline, tnode, sets, addlog, tout, tnode2, tpc>>
vars == <<handle, i, nodes, taskpaper, last, pc, query, tasks, tp_string,
          tline, tnode, sets, addlog, tout, tnode2, tpc>>

NoNode == BaseNode("None", <<>>)

(* --------------------------- the tree builder ------------------------ *)

\* Node.add_child when the receiver is a node
add_child(ns, p, c) ==
    IF p = Doc THEN ns ELSE [ns EXCEPT ![p].children = Append(@, c)]

\* TaskPaper.add_child when the receiver is the document
tp_add_child(tp, p, c) ==
    IF p = Doc THEN [tp EXCEPT !.children = Append(@, c)] ELSE tp

\* set_parent that forgets the assignment
set_parent_lost(ns, c, p) == ns

\* Node.set_parent
set_parent(ns, c, p) == [ns EXCEPT ![c].parent = p]

\* the test that sends a node under the cursor
attach_to_last(node, lastnode) ==
    node.tabs > lastnode.tabs \/ node.cls = "Note"

\* the while loop of the climb: the node it stops at, Doc when it walks
\* off the tree onto the TaskPaper object
RECURSIVE climb(_, _, _)
climb(ns, l, t) ==
    IF l = Doc THEN Doc
    ELSE IF t < ns[l].tabs THEN climb(ns, ns[l].parent, t)
    ELSE l

\* the parent a node gets after the climb stopped at l
sibling_parent(ns, l) == ns[l].parent

\* the cursor after a node was handled
next_last(node, c, l) == IF node.cls # "Note" THEN c ELSE l

InLoop == pc = "loop" /\ i <= Len(handle)

node == MakeNode(handle[i])

new == Len(nodes) + 1

\* one iteration that attaches the new node under p
Attach(p) ==
    /\ nodes' = set_parent(add_child(Append(nodes, node), p, new), new, p)
    /\ taskpaper' = tp_add_child(taskpaper, p, new)
    /\ last' = next_last(node, new, last)
    /\ i' = i + 1
    /\ UNCHANGED <<handle, pc, query, tasks, tp_string>>
    /\ UNCHANGED tagvars

Blank ==
    /\ InLoop
    /\ Classify(handle[i]) = "Blank"
    /\ i' = i + 1
    /\ UNCHANGED <<handle, nodes, taskpaper, last, pc, query, tasks, tp_string>>
    /\ UNCHANGED tagvars

AttachRoot ==
    /\ InLoop
    /\ Classify(handle[i]) # "Blank"
    /\ ~(last # NoneRef /\ node.tabs # 0)
    /\ Attach(Doc)

AttachChild ==
    /\ InLoop
    /\ Classify(handle[i]) # "Blank"
    /\ last # NoneRef /\ node.tabs # 0
    /\ attach_to_last(node, nodes[last])
    /\ Attach(last)

AttachSibling ==
    /\ InLoop
    /\ Classify(handle[i]) # "Blank"
    /\ last # NoneRef /\ node.tabs # 0
    /\ ~attach_to_last(node, nodes[last])
    /\ climb(nodes, last, node.tabs) # Doc
    /\ Attach(sibling_parent(nodes, climb(nodes, last, node.tabs)))

\* the climb reaches the TaskPaper object, which has no tabs attribute
ClimbRaises ==
    /\ InLoop
    /\ Classify(handle[i]) # "Blank"
    /\ last # NoneRef /\ node.tabs # 0
    /\ ~attach_to_last(node, nodes[last])
    /\ climb(nodes, last, node.tabs) = Doc
    /\ pc' = "AttributeError"
    /\ UNCHANGED <<handle, i, nodes, taskpaper, last, query, tasks, tp_string>>
    /\ UNCHANGED tagvars

Return ==
    /\ pc = "loop"
    /\ i > Len(handle)
    /\ pc' = "done"
    /\ UNCHANGED <<handle, i, nodes, taskpaper, last, query, tasks, tp_string>>
    /\ UNCHANGED tagvars

(* ------------------------ queries on the document -------------------- *)

\* the test without isinstance: raw tags of a Project or Note count too
matches_any_kind(n, tag_name) ==
    IF n.cls = "Task" THEN tag_name \in dict_keys(n.tags)
    ELSE tag_name \in {n.tags[k] : k \in 1..Len(n.tags)}

\* the test of filter_nodes
matches(n, tag_name) == n.cls = "Task" /\ tag_name \in dict_keys(n.tags)

RECURSIVE filter_nodes(_, _, _)
filter_nodes(ns, ids, tag_name) ==
    IF ids = <<>> THEN <<>>
    ELSE (IF matches(ns[Head(ids)], tag_name) THEN <<Head(ids)>> ELSE <<>>)
         \o filter_nodes(ns, ns[Head(ids)].children, tag_name)
         \o filter_nodes(ns, Tail(ids), tag_name)

\* the texts to_string(nodes) may give
RECURSIVE to_string(_, _)
to_string(ns, ids) ==
    IF ids = <<>> THEN {<<>>}
    ELSE {own \o <<NL>> \o below \o rest :
             own \in Str(ns[Head(ids)]),
             below \in to_string(ns, ns[Head(ids)].children),
             rest \in to_string(ns, Tail(ids))}

FilterByTag ==
    /\ pc = "done"
    /\ \E tag_name \in TagNames :
          /\ query' = Some(tag_name)
          /\ tasks' = filter_nodes(nodes, taskpaper.children, tag_name)
    /\ UNCHANGED <<handle, i, nodes, taskpaper, last, pc, tp_string>>
    /\ UNCHANGED tagvars

Render ==
    /\ pc = "done"
    /\ \E text \in to_string(nodes, taskpaper.children) :
          tp_string' = Some(text)
    /\ UNCHANGED <<handle, i, nodes, taskpaper, last, pc, query, tasks>>
    /\ UNCHANGED tagvars

(* ------------------------- one node on its own ----------------------- *)

ParseTask ==
    /\ tpc = "new"
    /\ tnode' = MakeNode(tline)
    /\ tpc' = "parsed"
    /\ UNCHANGED <<tline, sets, addlog, tout, tnode2>>
    /\ UNCHANGED treevars

\* a consumer's t.tags[name] = value on a task
SetTag ==
    /\ tpc = "parsed"
    /\ tnode.cls = "Task"
    /\ sets < MaxSets
    /\ \E name \in dict_keys(tnode.tags) \cup {<<"b">>}, value \in SetValues :
          tnode' = [tnode EXCEPT !.tags = dict_set(@, name, value)]
    /\ sets' = sets + 1
    /\ UNCHANGED <<tline, addlog, tout, tnode2, tpc>>
    /\ UNCHANGED treevars

\* Node.add_tag on a Project or Note: the raw tag list grows
AddTag ==
    /\ tpc = "parsed"
    /\ tnode.cls # "Task"
    /\ Len(addlog) < MaxAdds
    /\ \E tag \in TagNames :
          tnode' = [tnode EXCEPT !.tags = Append(@, tag)]
    /\ addlog' = Append(addlog, "ok")
    /\ UNCHANGED <<tline, sets, tout, tnode2, tpc>>
    /\ UNCHANGED treevars

\* Node.add_tag on a Task: its tags is a dict, which has no append
AddTagRaises ==
    /\ tpc = "parsed"
    /\ tnode.cls = "Task"
    /\ Len(addlog) < MaxAdds
    /\ addlog' = Append(addlog, "AttributeError")
    /\ UNCHANGED <<tline, tnode, sets, tout, tnode2, tpc>>
    /\ UNCHANGED treevars

RenderTask ==
    /\ tpc = "parsed"
    /\ tout' \in Str(tnode)
    /\ tpc' = "rendered"
    /\ UNCHANGED <<tline, tnode, sets, addlog, tnode2>>
    /\ UNCHANGED treevars

ReparseTask ==
    /\ tpc = "rendered"
    /\ tnode2' = MakeNode(tout)
    /\ tpc' = "reparsed"
    /\ UNCHANGED <<tline, tnode, sets, addlog, tout>>
    /\ UNCHANGED treevars

(* --------------------------- specifications -------------------------- *)

TagsOff ==
    /\ tline = <<>> /\ tnode = NoNode /\ sets = 0 /\ addlog = <<>>
    /\ tout = <<>> /\ tnode2 = NoNode /\ tpc = "off"

TreeOff ==
    /\ handle = <<>> /\ i = 1 /\ nodes = <<>>
    /\ taskpaper = [children |-> <<>>] /\ last = NoneRef /\ pc = "off"
    /\ query = None /\ tasks = <<>> /\ tp_string = None

Init ==
    /\ handle \in Inputs
    /\ i = 1
    /\ nodes = <<>>
    /\ taskpaper = [children |-> <<>>]
    /\ last = NoneRef
    /\ pc = "loop"
    /\ query = None /\ tasks = <<>> /\ tp_string = None
    /\ TagsOff

Next ==
    \/ Blank
    \/ AttachRoot
    \/ AttachChild
    \/ AttachSibling
    \/ ClimbRaises
    \/ Return
    \/ FilterByTag
    \/ Render

Spec == Init /\ [][Next]_vars

InitTags ==
    /\ tline \in NodeLines
    /\ tnode = NoNode /\ sets = 0 /\ addlog = <<>>
    /\ tout = <<>> /\ tnode2 = NoNode /\ tpc = "new"
    /\ TreeOff

NextTags ==
    \/ ParseTask
    \/ SetTag
    \/ AddTag
    \/ AddTagRaises
    \/ RenderTask
    \/ ReparseTask

SpecTags == InitTags /\ [][NextTags]_vars

(* ============================ properties ============================= *)

Range(f) == {f[k] : k \in DOMAIN f}

NodeIds == 1..Len(nodes)

\* the children sequence of a parent reference
ChildrenOf(p) == IF p = Doc THEN taskpaper.children ELSE nodes[p].children

\* number of leading tabs of an input line
Depth(line) == Len(line) - Len(lstrip(line, {Tab}))

NonBlank(line) == Classify(line) # "Blank"

\* the node made from input line k: blank lines make none
NodeOf(k) == Cardinality({j \in 1..k : NonBlank(handle[j])})

\* ancestors of a node, itself included, the document excluded
RECURSIVE AncestorsOrSelf(_)
AncestorsOrSelf(n) ==
    IF n \notin NodeIds THEN {} ELSE {n} \cup AncestorsOrSelf(nodes[n].parent)

\* number of parent links from n up to its ancestor a
RECURSIVE Hops(_, _)
Hops(n, a) == IF n = a THEN 0 ELSE 1 + Hops(nodes[n].parent, a)

\* the node or document k parent links above n
RECURSIVE Up(_, _)
Up(n, k) ==
    IF k = 0 \/ n \notin NodeIds THEN n ELSE Up(nodes[n].parent, k - 1)

\* position of n in the children sequence of its parent
PosOf(n) ==
    CHOOSE k \in 1..Len(ChildrenOf(nodes[n].parent)) :
        ChildrenOf(nodes[n].parent)[k] = n

\* child positions from the document down to n
RECURSIVE PathOf(_)
PathOf(n) ==
    IF nodes[n].parent = Doc THEN <<PosOf(n)>>
    ELSE PathOf(nodes[n].parent) \o <<PosOf(n)>>

\* p comes before q depth-first: p is above q, or branches off to the left
Before(p, q) ==
    \/ Len(p) < Len(q) /\ SubSeq(q, 1, Len(p)) = p
    \/ \E k \in 1..Len(p) :
          /\ k <= Len(q)
          /\ SubSeq(p, 1, k - 1) = SubSeq(q, 1, k - 1)
          /\ p[k] < q[k]

(* ------------------------------ C10 ---------------------------------- *)

\* C10: after every processed line every node has exactly one parent (a
\* node or the document), is exactly once in that parent's children and in
\* no other children sequence, and its parent links lead to the document
\* without a repeat.
C10_TreeWellFormed ==
    \A n \in NodeIds :
        /\ nodes[n].parent \in NodeIds \cup {Doc}
        /\ Cardinality({k \in 1..Len(ChildrenOf(nodes[n].parent)) :
                            ChildrenOf(nodes[n].parent)[k] = n}) = 1
        /\ \A p \in (NodeIds \cup {Doc}) \ {nodes[n].parent} :
               n \notin Range(ChildrenOf(p))
        /\ \E k \in 1..Len(nodes) :
               /\ Up(n, k) = Doc
               /\ \A a, b \in 0..(k - 1) : a # b => Up(n, a) # Up(n, b)

\* a finished parse with a node two levels below a root child
C10_Witness ==
    /\ pc = "done"
    /\ \E n \in NodeIds :
          /\ nodes[n].parent \in NodeIds
          /\ nodes[nodes[n].parent].parent \in NodeIds

(* ------------------------------- C1 ---------------------------------- *)

\* the rendered text cut into lines, each with its newline
OutLines ==
    LET pieces == split(tp_string.val, NL)
    IN  [k \in 1..(Len(pieces) - 1) |-> pieces[k] \o <<NL>>]

\* C1: for an input of non-blank lines, a parse that returned renders one
\* line per input line, line k of the output being input line k for a
\* Project or Note line and the rendering of its task for a Task line.
C1_RoundTripLines ==
    (/\ pc = "done"
     /\ tp_string.has
     /\ \A k \in 1..Len(handle) : NonBlank(handle[k]))
    => /\ Len(OutLines) = Len(handle)
       /\ \A k \in 1..Len(handle) :
             IF Classify(handle[k]) \in {"Project", "Note"}
             THEN OutLines[k] = handle[k]
             ELSE OutLines[k] \in
                      {text \o <<NL>> : text \in Str(MakeNode(handle[k]))}

(* ------------------------------- C2 ---------------------------------- *)

\* C2: whatever the depths and kinds of the lines, the parse never fails:
\* a climb past every ancestor ends at the document root.
C2_NeverAnError == pc # "AttributeError"

(* ------------------------------- C3 ---------------------------------- *)

\* C3: once the parse has ended, every non-blank input line of depth 0 is a
\* node whose parent is the document and which is among the document's
\* children.
C3_DepthZeroAtRoot ==
    pc \in {"done", "AttributeError"}
    => \A k \in 1..Len(handle) :
          (NonBlank(handle[k]) /\ Depth(handle[k]) = 0)
          => /\ NodeOf(k) \in NodeIds
             /\ nodes[NodeOf(k)].parent = Doc
             /\ NodeOf(k) \in Range(taskpaper.children)

(* ------------------------------- C4 ---------------------------------- *)

\* the result of the latest filter_by_tag call is right
FilterResultRight ==
    query.has
    => /\ Range(tasks) =
              {n \in NodeIds : /\ nodes[n].cls = "Task"
                               /\ query.val \in dict_keys(nodes[n].tags)}
       /\ \A a, b \in 1..Len(tasks) :
              a < b => /\ tasks[a] # tasks[b]
                       /\ Before(PathOf(tasks[a]), PathOf(tasks[b]))

\* C4: filter_by_tag returns exactly the Task nodes whose tag mapping has
\* the tag name, each once, in depth-first document order, never a Project
\* or a Note, nothing when no Task has the tag; and the call leaves the tree
\* as it was.
C4_FilterByTag ==
    /\ []FilterResultRight
    /\ [][query' # query => UNCHANGED <<nodes, taskpaper, last, handle>>]_vars

\* a call for "b" that returned a nested task and left out a task tagged
\* "a" and a note with the raw tag "@b"
C4_Witness ==
    /\ query = Some(<<"b">>)
    /\ \E k \in 1..Len(tasks) : nodes[tasks[k]].parent \in NodeIds
    /\ \E n \in NodeIds : nodes[n].cls = "Task" /\ n \notin Range(tasks)
    /\ \E n \in NodeIds :
          nodes[n].cls = "Note" /\ <<"b">> \in Range(nodes[n].tags)

(* ------------------------------- C8 ---------------------------------- *)

\* a step that attaches a Note while a cursor exists
NoteStep ==
    /\ pc = "loop"
    /\ Len(nodes') = Len(nodes) + 1
    /\ nodes'[new].cls = "Note"
    /\ last # NoneRef

\* C8: every Note after a non-Note line becomes a child of the cursor,
\* whatever its depth, depth 0 included, and the cursor stays.
C8_NoteUnderCursor ==
    [][NoteStep => (nodes'[new].parent = last /\ last' = last)]_vars

(* ------------------------------- C9 ---------------------------------- *)

\* a step that attaches a non-Note node no deeper than the cursor
SiblingStep ==
    /\ pc = "loop"
    /\ Len(nodes') = Len(nodes) + 1
    /\ nodes'[new].cls # "Note"
    /\ last # NoneRef
    /\ nodes'[new].tabs <= nodes[last].tabs

\* the ancestor-or-self of l nearest to l among those in S
Closest(l, S) == CHOOSE a \in S : \A b \in S : Hops(l, a) <= Hops(l, b)

AtLeast(l, d) == {a \in AncestorsOrSelf(l) : nodes[a].tabs >= d}

\* the last node of the upward walk from l over nodes of depth >= d
RECURSIVE WalkEnd(_, _)
WalkEnd(l, d) ==
    IF nodes[l].parent \in NodeIds /\ nodes[nodes[l].parent].tabs >= d
    THEN WalkEnd(nodes[l].parent, d)
    ELSE l

\* C9: a non-Note node no deeper than the cursor becomes a child of the
\* parent of the closest ancestor-or-self of the cursor whose depth is at
\* least the node's depth, "closest" read either as nearest to the cursor or
\* as the node where the upward walk over such depths ends.
C9_ClimbToAtLeast ==
    [][SiblingStep =>
         \/ nodes'[new].parent =
               nodes[Closest(last, AtLeast(last, nodes'[new].tabs))].parent
         \/ nodes'[new].parent =
               nodes[WalkEnd(last, nodes'[new].tabs)].parent]_vars

(* ------------------------------- C5 ---------------------------------- *)

\* the value a mapping holds for a name
ValueOf(d, name) == d[dict_get(d, name)].value

\* the "@"-segments after the body of a task line, each trimmed
Segments(line) ==
    LET tokens == split(strip(line), "@")
    IN  [k \in 1..(Len(tokens) - 1) |-> strip(tokens[k + 1])]

\* the text of a segment before its first "("
SegName(g) ==
    IF find(g, "(") = 0 THEN g ELSE SubSeq(g, 1, find(g, "(") - 1)

\* the text of a segment after its first "("
SegRest(g) == SubSeq(g, find(g, "(") + 1, Len(g))

\* the value the claim gives a segment: none without "(", else the text
\* after the first "(" less its trailing ")"; when that text does not end
\* in ")" the claim fixes only that there is a value
SegValueRight(g, value) ==
    IF find(g, "(") = 0 THEN value = None
    ELSE IF endswith(SegRest(g), <<")">>)
         THEN value = Some(SubSeq(SegRest(g), 1, Len(SegRest(g)) - 1))
         ELSE value.has

\* C5: a parsed task has one entry per segment name, the name being the
\* segment's text before its first "(", the value absent without "(" and
\* otherwise the text after the first "(" less one trailing ")"; of two
\* segments with one name the later one gives the value.
C5_TagExtraction ==
    (tpc = "parsed" /\ tnode.cls = "Task" /\ sets = 0)
    => LET segs == Segments(tline)
       IN  /\ dict_keys(tnode.tags) = {SegName(segs[k]) : k \in 1..Len(segs)}
           /\ Cardinality(dict_keys(tnode.tags)) = Len(tnode.tags)
           /\ \A k \in 1..Len(segs) :
                 (\A j \in (k + 1)..Len(segs) :
                      SegName(segs[j]) # SegName(segs[k]))
                 => SegValueRight(segs[k],
                                  ValueOf(tnode.tags, SegName(segs[k])))

(* ------------------------------- C6 ---------------------------------- *)

\* two mappings with the same names and the same value, or absence of a
\* value, for each
SameMapping(d, e) ==
    /\ dict_keys(d) = dict_keys(e)
    /\ \A name \in dict_keys(d) : ValueOf(d, name) = ValueOf(e, name)

\* C6: a task line parsed, rendered and parsed again has the name and the
\* tag mapping of the first parse.
C6_TagRoundTrip ==
    (tpc = "reparsed" /\ tnode.cls = "Task" /\ sets = 0)
    => /\ tnode2.name = tnode.name
       /\ SameMapping(tnode.tags, tnode2.tags)

(* ------------------------------- C7 ---------------------------------- *)

\* the item the claim writes for an entry
ClaimItem(t) ==
    IF t.value.has
    THEN <<"@">> \o t.name \o <<"(">> \o t.value.val \o <<")">>
    ELSE <<"@">> \o t.name

\* C7: after a consumer set a tag, the rendered task is its tabs, "- ", the
\* name and one space-separated item per entry of the mapping, in some
\* order of the entries: "@name(value)" for an entry with a value, "@name"
\* for an entry without.
C7_RenderReflectsMapping ==
    (tpc = "rendered" /\ tnode.cls = "Task" /\ sets >= 1)
    => \E order \in ItemOrders(Len(tnode.tags)) :
          tout = tabs_str(tnode.tabs) \o <<"-", " ">> \o tnode.name \o <<" ">>
                   \o join([k \in 1..Len(tnode.tags) |->
                                ClaimItem(tnode.tags[order[k]])], <<" ">>)

====
